---- MODULE Spec2Model ----
(***************************************************************************)
(* A model of the Python bridge of playwright-smart-reporter:              *)
(*   converter.py  - pytest-json-report document -> Smart Reporter data    *)
(*   bridge.py     - renderer location and the Node.js invocation          *)
(*   plugin.py     - the pytest session-finish hook                        *)
(*                                                                         *)
(* Python values are tagged records [t, v].  A Python str is a sequence of *)
(* symbols (a symbol is a character, or a word that is never looked into). *)
(* A float is an integer count of 1/Scale seconds.                         *)
(***************************************************************************)
EXTENDS Integers, Sequences, FiniteSets, TLC

VARIABLES
  report,      \* content of the pytest JSON report file given to the converter
  clock,       \* datetime.utcnow().timestamp(), in 1/Scale seconds
  converted,   \* what convert_pytest_json(report) ended with, or NotRun
  fs,          \* the directories the renderer is looked for in
  located,     \* what _get_dist_root() ended with, or NotRun
  script,      \* content of <project_root>/.generate-report.js
  dataFiles,   \* content of the file at each transient document path
  bridge,      \* the caller's SmartReporterBridge: its _dist_root, or NotRun
  calls,       \* the generate_report calls: position, arguments, locals, outcome
  hook,        \* pytest_sessionfinish: position, its bridge, its call, what it printed
  exitstatus,  \* the exit status of the test session
  testsFailed  \* whether tests of the session failed

convVars == <<report, clock, converted>>
locVars == <<fs, located>>
runVars == <<script, dataFiles, bridge, calls, hook, exitstatus, testsFailed>>

vars == <<report, clock, converted, fs, located,
          script, dataFiles, bridge, calls, hook, exitstatus, testsFailed>>

(***************************************************************************)
(* Bounds of the model.                                                    *)
(***************************************************************************)
MaxStrLen == 3      \* longest duration string drawn
MaxIdLen == 4       \* longest nodeid drawn
MaxTests == 2       \* most test records in a drawn multi-record document
ChainDepth == 7     \* directories from the working directory up to the root
MaxMarked == 2      \* most directories holding a package.json or a dist
MaxCalls == 2       \* generate_report calls in one run

\* the factor of converter.py's `* 1000`
MsPerSecond == 1000

\* floats are held exactly, in units of 1/Scale seconds: tenths of a millisecond
Scale == 10 * MsPerSecond

(***************************************************************************)
(* Python values.                                                          *)
(***************************************************************************)
JNull == [t |-> "null", v |-> 0]
JBool(b) == [t |-> "bool", v |-> b]
JInt(n) == [t |-> "int", v |-> n]
JFloat(u) == [t |-> "float", v |-> u]
JInf(sign) == [t |-> "inf", v |-> sign]
JNaN == [t |-> "nan", v |-> 0]
JStr(s) == [t |-> "str", v |-> s]
JList(items) == [t |-> "list", v |-> items]
JDict(pairs) == [t |-> "dict", v |-> pairs]
KV(key, x) == [k |-> key, value |-> x]

\* a one-word str
W(word) == JStr(<<word>>)

\* results of calls: a returned value or a raised exception
Ok(value) == [exc |-> "", val |-> value]
Raise(e) == [exc |-> e, val |-> 0]

\* a call that has not been made, or has not ended
NotRun == [exc |-> "notrun", val |-> 0]

(***************************************************************************)
(* Python built-ins the converter relies on.                               *)
(***************************************************************************)
\* bool(x): the truth value Python's `if x` and `x or y` test
Truthy(x) ==
  CASE x.t = "null" -> FALSE
    [] x.t = "bool" -> x.v
    [] x.t \in {"int", "float"} -> x.v # 0
    [] x.t \in {"inf", "nan"} -> TRUE
    [] OTHER -> Len(x.v) > 0

\* key in d, for a dict d
HasKey(d, key) == \E i \in 1..Len(d.v) : d.v[i].k = key

\* d.get(key, default), for a dict d
GetOr(d, key, default) ==
  IF HasKey(d, key)
  THEN d.v[CHOOSE i \in 1..Len(d.v) : d.v[i].k = key /\ \A j \in 1..(i-1) : d.v[j].k # key].value
  ELSE default

\* d.get(key)
Get(d, key) == GetOr(d, key, JNull)

Digits == <<"0", "1", "2", "3", "4", "5", "6", "7", "8", "9">>
DigitSym(d) == Digits[d + 1]
IsDigit(c) == \E d \in 0..9 : Digits[d + 1] = c
DigitVal(c) == CHOOSE d \in 0..9 : Digits[d + 1] = c

RECURSIVE DigitsVal(_)
DigitsVal(ds) ==
  IF ds = <<>> THEN 0
  ELSE 10 * DigitsVal(SubSeq(ds, 1, Len(ds) - 1)) + DigitVal(ds[Len(ds)])

\* the value, in 1/Scale, of the digits after a decimal point
RECURSIVE FracVal(_, _)
FracVal(ds, unit) ==
  IF ds = <<>> \/ unit = 0 THEN 0
  ELSE DigitVal(Head(ds)) * unit + FracVal(Tail(ds), unit \div 10)

\* float(s) for a str s: [sign] digits [. digits] | [sign] . digits | inf | nan;
\* no other symbol of the model's alphabet is part of a float literal
ParseFloat(s) ==
  LET signed == Len(s) > 0 /\ s[1] \in {"-", "+"}
      sign == IF signed /\ s[1] = "-" THEN -1 ELSE 1
      body == IF signed THEN Tail(s) ELSE s
      dots == {i \in 1..Len(body) : body[i] = "."}
      dot == IF dots = {} THEN Len(body) + 1 ELSE CHOOSE i \in dots : TRUE
      whole == SubSeq(body, 1, dot - 1)
      frac == SubSeq(body, dot + 1, Len(body))
  IN  IF body = <<"i", "n", "f">> THEN Ok(JInf(sign))
      ELSE IF body = <<"n", "a", "n">> THEN Ok(JNaN)
      ELSE IF /\ Cardinality(dots) <= 1
              /\ \A i \in 1..Len(body) : i \in dots \/ IsDigit(body[i])
              /\ Len(whole) + Len(frac) > 0
           THEN Ok(JFloat(sign * (DigitsVal(whole) * Scale + FracVal(frac, Scale \div 10))))
           ELSE Raise("ValueError")

\* float(x)
PyFloat(x) ==
  CASE x.t = "int" -> Ok(JFloat(x.v * Scale))
    [] x.t = "bool" -> Ok(JFloat(IF x.v THEN Scale ELSE 0))
    [] x.t \in {"float", "inf", "nan"} -> Ok(x)
    [] x.t = "str" -> ParseFloat(x.v)
    [] OTHER -> Raise("TypeError")

\* a / b truncated toward zero
Trunc(a, b) == IF a >= 0 THEN a \div b ELSE -((-a) \div b)

\* int(f * 1000) for a float f; (v / Scale) * MsPerSecond = v / (Scale / MsPerSecond)
IntTimes1000(f) ==
  CASE f.t = "inf" -> Raise("OverflowError")
    [] f.t = "nan" -> Raise("ValueError")
    [] OTHER -> Ok(Trunc(f.v, Scale \div MsPerSecond))

RECURSIVE NatRepr(_)
NatRepr(n) ==
  IF n < 10 THEN <<DigitSym(n)>> ELSE NatRepr(n \div 10) \o <<DigitSym(n % 10)>>

IntRepr(n) == IF n < 0 THEN <<"-">> \o NatRepr(-n) ELSE NatRepr(n)

RECURSIVE FracDigits(_, _)
FracDigits(f, unit) ==
  IF unit = 0 THEN <<>>
  ELSE <<DigitSym(f \div unit)>> \o FracDigits(f % unit, unit \div 10)

RECURSIVE StripZeros(_)
StripZeros(s) ==
  IF Len(s) > 1 /\ s[Len(s)] = "0" THEN StripZeros(SubSeq(s, 1, Len(s) - 1)) ELSE s

FloatRepr(u) ==
  LET a == IF u < 0 THEN -u ELSE u
  IN  (IF u < 0 THEN <<"-">> ELSE <<>>) \o NatRepr(a \div Scale) \o <<".">>
        \o StripZeros(FracDigits(a % Scale, Scale \div 10))

\* json.dumps(x) (py = FALSE) and repr(x) (py = TRUE), without escapes
RECURSIVE Render(_, _)
RECURSIVE RenderItems(_, _)
RECURSIVE RenderPairs(_, _)
Render(x, py) ==
  LET q == IF py THEN "'" ELSE "\""
  IN  CASE x.t = "null" -> IF py THEN <<"None">> ELSE <<"null">>
        [] x.t = "bool" -> IF py THEN (IF x.v THEN <<"True">> ELSE <<"False">>)
                           ELSE (IF x.v THEN <<"true">> ELSE <<"false">>)
        [] x.t = "int" -> IntRepr(x.v)
        [] x.t = "float" -> FloatRepr(x.v)
        [] x.t = "inf" -> (IF x.v < 0 THEN <<"-">> ELSE <<>>)
                            \o (IF py THEN <<"inf">> ELSE <<"Infinity">>)
        [] x.t = "nan" -> IF py THEN <<"nan">> ELSE <<"NaN">>
        [] x.t = "str" -> <<q>> \o x.v \o <<q>>
        [] x.t = "list" -> <<"[">> \o RenderItems(x.v, py) \o <<"]">>
        [] OTHER -> <<"{">> \o RenderPairs(x.v, py) \o <<"}">>
RenderItems(items, py) ==
  IF items = <<>> THEN <<>>
  ELSE Render(Head(items), py)
         \o (IF Len(items) > 1 THEN <<",", " ">> ELSE <<>>)
         \o RenderItems(Tail(items), py)
RenderPairs(pairs, py) ==
  LET q == IF py THEN "'" ELSE "\""
  IN  IF pairs = <<>> THEN <<>>
      ELSE <<q, Head(pairs).k, q, ":", " ">> \o Render(Head(pairs).value, py)
             \o (IF Len(pairs) > 1 THEN <<",", " ">> ELSE <<>>)
             \o RenderPairs(Tail(pairs), py)

\* json.dumps(x)
Dumps(x) == Render(x, FALSE)

\* str(x), for x that is not a str
PyStr(x) == Render(x, TRUE)

(***************************************************************************)
(* converter.py                                                            *)
(***************************************************************************)
\* the except clause of _to_ms
ToMsCaught == {"TypeError", "ValueError"}

_to_ms(seconds) ==
  IF seconds.t = "null" THEN Ok(0)
  ELSE LET f == PyFloat(seconds)
           r == IF f.exc = "" THEN IntTimes1000(f.val) ELSE f
       IN  IF r.exc \in ToMsCaught THEN Ok(0) ELSE r

\* a phase order that looks at setup before call
PhasesSetupFirst == <<"setup", "call", "teardown">>

\* the order in which _extract_error looks at the phases
Phases == <<"call", "setup", "teardown">>

\* the string made of a truthy longrepr
ErrorText(longrepr) ==
  IF longrepr.t = "str" THEN longrepr
  ELSE IF longrepr.t = "dict"
       THEN LET message == Get(longrepr, "message")
            IN  IF Truthy(message) THEN message ELSE JStr(Dumps(longrepr))
       ELSE JStr(PyStr(longrepr))

RECURSIVE ExtractFrom(_, _)
ExtractFrom(test, phases) ==
  IF phases = <<>> THEN Ok(JNull)
  ELSE LET got == Get(test, Head(phases))
           data == IF Truthy(got) THEN got ELSE JDict(<<>>)
       IN  IF data.t # "dict" THEN Raise("AttributeError")
           ELSE LET longrepr == Get(data, "longrepr")
                IN  IF Truthy(longrepr) THEN Ok(ErrorText(longrepr))
                    ELSE ExtractFrom(test, Tail(phases))

_extract_error(test) == ExtractFrom(test, Phases)

_status_from_outcome(outcome) ==
  IF outcome = W("passed") THEN "passed"
  ELSE IF outcome = W("failed") THEN "failed"
  ELSE IF outcome = W("skipped") THEN "skipped"
  ELSE "failed"

\* an outcome table that forgets the skipped row
PlaywrightOutcomeNoSkipped(outcome) ==
  IF outcome = W("passed") THEN "expected" ELSE "unexpected"

_playwright_outcome(outcome) ==
  IF outcome = W("passed") THEN "expected"
  ELSE IF outcome = W("skipped") THEN "skipped"
  ELSE "unexpected"

\* the place of the first "::" in s, or 0
FirstDelim(s) ==
  LET at == {i \in 1..(Len(s) - 1) : s[i] = ":" /\ s[i + 1] = ":"}
  IN  IF at = {} THEN 0 ELSE CHOOSE i \in at : \A j \in at : i <= j

\* s.split("::")
RECURSIVE Split(_)
Split(s) ==
  LET i == FirstDelim(s)
  IN  IF i = 0 THEN <<s>>
      ELSE <<SubSeq(s, 1, i - 1)>> \o Split(SubSeq(s, i + 2, Len(s)))

\* a join that puts a single ":" between the parts
RECURSIVE JoinSingleColon(_)
JoinSingleColon(parts) ==
  IF parts = <<>> THEN <<>>
  ELSE IF Len(parts) = 1 THEN parts[1]
  ELSE parts[1] \o <<":">> \o JoinSingleColon(Tail(parts))

\* "::".join(parts)
RECURSIVE Join(_)
Join(parts) ==
  IF parts = <<>> THEN <<>>
  ELSE IF Len(parts) = 1 THEN parts[1]
  ELSE parts[1] \o <<":", ":">> \o Join(Tail(parts))

DefaultNodeid == JStr(<<"unknown", ":", ":", "test">>)

\* "::" in nodeid
DelimIn(nodeid) ==
  CASE nodeid.t = "str" -> Ok(FirstDelim(nodeid.v) # 0)
    [] nodeid.t = "list" -> Ok(\E i \in 1..Len(nodeid.v) : nodeid.v[i] = JStr(<<":", ":">>))
    [] nodeid.t = "dict" -> Ok(HasKey(nodeid, "::"))
    [] OTHER -> Raise("TypeError")

\* lines 74-79: (file_part, title) of a nodeid
SplitNodeid(nodeid) ==
  LET has == DelimIn(nodeid)
  IN  IF has.exc # "" THEN has
      ELSE IF has.val
           THEN IF nodeid.t # "str" THEN Raise("AttributeError")
                ELSE LET parts == Split(nodeid.v)
                     IN  Ok([file |-> JStr(parts[1]), title |-> JStr(Join(Tail(parts)))])
           ELSE Ok([file |-> W("unknown"), title |-> nodeid])

EmptyAttachments ==
  [screenshots |-> <<>>, videos |-> <<>>, traces |-> <<>>, custom |-> <<>>]

\* the body of the loop over tests: one canonical result
ConvertTest(test) ==
  IF test.t # "dict" THEN Raise("AttributeError")
  ELSE LET nodeid == GetOr(test, "nodeid", DefaultNodeid)
           split == SplitNodeid(nodeid)
           outcome == Get(test, "outcome")
           duration == Get(test, "duration")
           error == _extract_error(test)
           keywords == GetOr(test, "keywords", JList(<<>>))
           ms == _to_ms(duration)
       IN  IF split.exc # "" THEN split
           ELSE IF error.exc # "" THEN error
           ELSE IF ms.exc # "" THEN ms
           ELSE Ok([testId |-> nodeid,
                    title |-> split.val.title,
                    file |-> split.val.file,
                    status |-> _status_from_outcome(outcome),
                    duration |-> ms.val,
                    error |-> error.val,
                    retry |-> 0,
                    outcome |-> _playwright_outcome(outcome),
                    expectedStatus |-> "passed",
                    steps |-> <<>>,
                    history |-> <<>>,
                    tags |-> IF keywords.t = "list" THEN keywords.v ELSE <<>>,
                    attachments |-> EmptyAttachments])

\* what `for test in tests` iterates over
Iterate(tests) ==
  CASE tests.t = "list" -> Ok(tests.v)
    [] tests.t = "dict" -> Ok([i \in 1..Len(tests.v) |-> W(tests.v[i].k)])
    [] tests.t = "str" -> Ok([i \in 1..Len(tests.v) |-> JStr(<<tests.v[i]>>)])
    [] OTHER -> Raise("TypeError")

\* a loop that puts each new result in front of the earlier ones
RECURSIVE ConvertTestsReversed(_, _)
ConvertTestsReversed(tests, results) ==
  IF tests = <<>> THEN Ok(results)
  ELSE LET r == ConvertTest(Head(tests))
       IN  IF r.exc # "" THEN r
           ELSE ConvertTestsReversed(Tail(tests), <<r.val>> \o results)

\* the loop: the results so far, or the first exception
RECURSIVE ConvertTests(_, _)
ConvertTests(tests, results) ==
  IF tests = <<>> THEN Ok(results)
  ELSE LET r == ConvertTest(Head(tests))
       IN  IF r.exc # "" THEN r
           ELSE ConvertTests(Tail(tests), Append(results, r.val))

EmptyHistory == [runs |-> <<>>, tests |-> <<>>, summaries |-> <<>>]

Options ==
  [enableTraceViewer |-> FALSE, enableNetworkLogs |-> FALSE,
   enableGalleryView |-> FALSE, enableComparison |-> FALSE,
   enableHistoryDrilldown |-> FALSE, enableAIRecommendations |-> TRUE,
   enableTrendsView |-> TRUE, enableStabilityScore |-> TRUE,
   enableFailureClustering |-> TRUE, enableRetryAnalysis |-> FALSE]

\* a file that does not exist, and one whose text is not JSON
NoFile == [t |-> "nofile", v |-> 0]
NotJson == [t |-> "notjson", v |-> 0]

\* line 65: data.get("created") or datetime.utcnow().timestamp()
Created(data, now) ==
  LET c == Get(data, "created") IN IF Truthy(c) THEN c ELSE JFloat(now)

\* line 118: int(float(created) * 1000)
StartTime(created) ==
  LET f == PyFloat(created)
  IN  IF f.exc # "" THEN f ELSE IntTimes1000(f.val)

\* convert_pytest_json, on the content of the file at pytest_json_path
convert_pytest_json(file, now) ==
  IF file = NoFile THEN Raise("FileNotFoundError")
  ELSE IF file = NotJson THEN Raise("JSONDecodeError")
  ELSE IF file.t # "dict" THEN Raise("AttributeError")
  ELSE LET tests == Iterate(GetOr(file, "tests", JList(<<>>)))
           results == IF tests.exc # "" THEN tests ELSE ConvertTests(tests.val, <<>>)
           startTime == StartTime(Created(file, now))
       IN  IF results.exc # "" THEN results
           ELSE IF startTime.exc # "" THEN startTime
           ELSE Ok([results |-> results.val,
                    history |-> EmptyHistory,
                    startTime |-> startTime.val,
                    options |-> Options])

(***************************************************************************)
(* bridge.py: locating the compiled generators.                            *)
(*                                                                         *)
(* Directories 1..ChainDepth are the working directory (1) and its         *)
(* ancestors, ChainDepth being the filesystem root; OffChain is a          *)
(* directory that is no ancestor of the working directory.  fs.anchor is   *)
(* Path(__file__).resolve().parent.parent.parent and fs.cwd is Path.cwd(). *)
(***************************************************************************)
OffChain == ChainDepth + 1
Dirs == 1..OffChain
None == 0

\* p.parent: the root is its own parent
Parent(d) == IF d >= ChainDepth THEN d ELSE d + 1

\* range(6) of the walk up from the working directory
WalkCeiling == 6

\* what a directory's package.json is
PkgKinds == {"absent", "unreadable", "other", "playwright-smart-reporter"}

_is_valid_root(f, p) ==
  IF f.pkg[p] = "absent" THEN FALSE
  ELSE IF f.pkg[p] = "unreadable" THEN FALSE
  ELSE f.pkg[p] = "playwright-smart-reporter"

\* the for loop of _find_monorepo_root
RECURSIVE WalkUp(_, _, _)
WalkUp(f, current, left) ==
  IF left = 0 THEN None
  ELSE IF _is_valid_root(f, current) THEN current
  ELSE WalkUp(f, Parent(current), left - 1)

_find_monorepo_root(f) ==
  IF _is_valid_root(f, f.anchor) THEN f.anchor
  ELSE WalkUp(f, f.cwd, WalkCeiling)

\* the directories _get_dist_root can return
BundledDist == [root |-> "_bundled_dist", dir |-> None]
DistOf(d) == [root |-> "dist", dir |-> d]

\* a locator that looks at the monorepo before the bundled directory
GetDistRootMonorepoFirst(f) ==
  LET monorepo == _find_monorepo_root(f)
  IN  IF monorepo # None /\ f.dist[monorepo] THEN Ok(DistOf(monorepo))
      ELSE IF f.bundled THEN Ok(BundledDist)
      ELSE Raise("RuntimeError")

_get_dist_root(f) ==
  IF f.bundled THEN Ok(BundledDist)
  ELSE LET monorepo == _find_monorepo_root(f)
       IN  IF monorepo # None /\ f.dist[monorepo] THEN Ok(DistOf(monorepo))
           ELSE Raise("RuntimeError")

\* the filesystems drawn: at most MaxMarked directories hold a package.json
\* or a dist/generators/html-generator.js
MarkKinds == (PkgKinds \X BOOLEAN) \ {<<"absent", FALSE>>}
MarkSets == {M \in SUBSET Dirs : Cardinality(M) <= MaxMarked}
CwdChoices == {1, 3}
AnchorChoices == {2, OffChain}
FileSystem(bundled, marks, anchor, cwd) ==
  [bundled |-> bundled,
   pkg |-> [d \in Dirs |-> IF d \in DOMAIN marks THEN marks[d][1] ELSE "absent"],
   dist |-> [d \in Dirs |-> IF d \in DOMAIN marks THEN marks[d][2] ELSE FALSE],
   anchor |-> anchor,
   cwd |-> cwd]
FileSystems ==
  {FileSystem(b, m, a, c) :
     b \in BOOLEAN, m \in UNION {[M -> MarkKinds] : M \in MarkSets},
     a \in AnchorChoices, c \in CwdChoices}

(***************************************************************************)
(* bridge.py: SmartReporterBridge.generate_report, step by step.           *)
(***************************************************************************)
Calls == 1..MaxCalls

\* the transient document paths: None (the default under project_root) or
\* a path of the caller's
DataPaths == {"default", "custom"}

\* contents of files
Partial == [t |-> "partial", v |-> 0]
ScriptFor(root) == [t |-> "script", v |-> root]
JsonOf(document) == [t |-> "json", v |-> document]

\* exceptions in flight, and none
Exc(name, text) == [exc |-> name, msg |-> text]
NoExc == Exc("", <<>>)
Pending == Exc("notrun", <<>>)

\* how a write_text can end: written; failed before the file was opened;
\* failed after open() created or truncated the file
WriteEnds == {"written", "unopened", "truncated"}

\* what subprocess.run can capture
Streams == {<<>>, <<"stream">>}
ExitCodes == {0, 1}

\* no CompletedProcess yet
NoResult == [returncode |-> -1, stdout |-> <<>>, stderr |-> <<>>]

IdleCall ==
  [pc |-> "idle", caller |-> "", path |-> "default", root |-> BundledDist,
   html_data |-> NotRun, launches |-> <<>>, result |-> NoResult,
   raised |-> NoExc, outcome |-> Pending]

Busy == \E c \in Calls : calls[c].pc \notin {"idle", "done", "retired"}

\* the session-finish hook is between its first and its last line
HookRunning == hook.pc \notin {"idle", "done"}

\* a call whose outcome its caller has taken: its locals are gone
Retired == [IdleCall EXCEPT !.pc = "retired"]

\* a call of generate_report begins: the next call in order; the locals of
\* the calls that returned before are gone
Begin(c, caller, path, root) ==
  /\ calls[c].pc = "idle"
  /\ \A d \in Calls : d < c => calls[d].pc # "idle"
  /\ calls' = [d \in Calls |->
                 IF d = c
                 THEN [calls[c] EXCEPT !.pc = "convert", !.caller = caller,
                                       !.path = path, !.root = root]
                 ELSE IF calls[d].pc = "done" THEN Retired
                 ELSE calls[d]]

\* line 132
ConvertStep(c) ==
  /\ calls[c].pc = "convert"
  /\ LET r == convert_pytest_json(report, clock)
     IN  calls' = [calls EXCEPT ![c] =
                     IF r.exc # ""
                     THEN [@ EXCEPT !.pc = "done", !.outcome = Exc(r.exc, <<>>)]
                     ELSE [@ EXCEPT !.pc = "save", !.html_data = r]]
  /\ UNCHANGED <<script, dataFiles, bridge, hook, exitstatus, testsFailed>>
  /\ UNCHANGED <<convVars, locVars>>

\* a document write that goes on to the script whether or not it succeeded
SaveDataIgnoresFailure(c) ==
  /\ calls[c].pc = "save"
  /\ \E end \in WriteEnds :
       dataFiles' =
         [dataFiles EXCEPT ![calls[c].path] =
            IF end = "written" THEN JsonOf(calls[c].html_data.val)
            ELSE IF end = "truncated" THEN Partial
            ELSE @]
  /\ calls' = [calls EXCEPT ![c] = [@ EXCEPT !.pc = "script"]]
  /\ UNCHANGED <<script, bridge, hook, exitstatus, testsFailed>>
  /\ UNCHANGED <<convVars, locVars>>

\* lines 135-137
SaveData(c) ==
  /\ calls[c].pc = "save"
  /\ \E end \in WriteEnds :
       /\ dataFiles' =
            [dataFiles EXCEPT ![calls[c].path] =
               IF end = "written" THEN JsonOf(calls[c].html_data.val)
               ELSE IF end = "truncated" THEN Partial
               ELSE @]
       /\ calls' = [calls EXCEPT ![c] =
                      IF end = "written" THEN [@ EXCEPT !.pc = "script"]
                      ELSE [@ EXCEPT !.pc = "done", !.outcome = Exc("OSError", <<>>)]]
  /\ UNCHANGED <<script, bridge, hook, exitstatus, testsFailed>>
  /\ UNCHANGED <<convVars, locVars>>

\* lines 140-146
WriteScript(c) ==
  /\ calls[c].pc = "script"
  /\ \E end \in WriteEnds :
       /\ script' = IF end = "written" THEN ScriptFor(calls[c].root)
                    ELSE IF end = "truncated" THEN Partial
                    ELSE script
       /\ calls' = [calls EXCEPT ![c] =
                      IF end = "written" THEN [@ EXCEPT !.pc = "launch"]
                      ELSE [@ EXCEPT !.pc = "done", !.outcome = Exc("OSError", <<>>)]]
  /\ UNCHANGED <<dataFiles, bridge, hook, exitstatus, testsFailed>>
  /\ UNCHANGED <<convVars, locVars>>

\* lines 149-157: subprocess.run starts node, or fails to
Launch(c) ==
  /\ calls[c].pc = "launch"
  /\ \E started \in BOOLEAN :
       calls' = [calls EXCEPT ![c] =
                   IF started
                   THEN [@ EXCEPT !.pc = "wait",
                                  !.launches = Append(@, [script |-> script,
                                                          data |-> dataFiles[calls[c].path],
                                                          argv |-> <<".generate-report.js", calls[c].path, "output_html">>])]
                   ELSE [@ EXCEPT !.pc = "finally", !.raised = Exc("FileNotFoundError", <<>>)]]
  /\ UNCHANGED <<script, dataFiles, bridge, hook, exitstatus, testsFailed>>
  /\ UNCHANGED <<convVars, locVars>>

\* the text of the error of line 161
RenderErrorText(stderr, stdout) ==
  <<"Report generation failed:", "\n">> \o (IF stderr # <<>> THEN stderr ELSE stdout)

\* lines 157-161: node exits; a script that was not there cannot exit 0
Exit(c) ==
  /\ calls[c].pc = "wait"
  /\ \E rc \in ExitCodes, out \in Streams, err \in Streams :
       /\ rc = 0 => calls[c].launches[Len(calls[c].launches)].script # NoFile
       /\ calls' = [calls EXCEPT ![c] =
                      [@ EXCEPT !.pc = "finally",
                                !.result = [returncode |-> rc, stdout |-> out, stderr |-> err],
                                !.raised = IF rc # 0
                                           THEN Exc("RuntimeError", RenderErrorText(err, out))
                                           ELSE NoExc]]
  /\ UNCHANGED <<script, dataFiles, bridge, hook, exitstatus, testsFailed>>
  /\ UNCHANGED <<convVars, locVars>>

\* a finally block that removes the transient document together with the script
CleanupRemovesData(c) ==
  /\ calls[c].pc = "finally"
  /\ \E unlinked \in BOOLEAN :
       /\ script' = IF script # NoFile /\ unlinked THEN NoFile ELSE script
       /\ calls' = [calls EXCEPT ![c] =
                      [@ EXCEPT !.pc = "done",
                                !.outcome = IF script # NoFile /\ ~unlinked
                                            THEN Exc("PermissionError", <<>>)
                                            ELSE calls[c].raised]]
  /\ dataFiles' = [dataFiles EXCEPT ![calls[c].path] = NoFile]
  /\ UNCHANGED <<bridge, hook, exitstatus, testsFailed>>
  /\ UNCHANGED <<convVars, locVars>>

\* lines 162-165: the finally block; an exception of unlink replaces the one in flight
Cleanup(c) ==
  /\ calls[c].pc = "finally"
  /\ IF script # NoFile
     THEN \E unlinked \in BOOLEAN :
            /\ script' = IF unlinked THEN NoFile ELSE script
            /\ calls' = [calls EXCEPT ![c] =
                           [@ EXCEPT !.pc = "done",
                                     !.outcome = IF unlinked THEN calls[c].raised
                                                 ELSE Exc("PermissionError", <<>>)]]
     ELSE /\ script' = script
          /\ calls' = [calls EXCEPT ![c] = [@ EXCEPT !.pc = "done", !.outcome = calls[c].raised]]
  /\ UNCHANGED <<dataFiles, bridge, hook, exitstatus, testsFailed>>
  /\ UNCHANGED <<convVars, locVars>>

\* lines 113-115: the caller builds its bridge
Construct ==
  /\ ~Busy
  /\ ~HookRunning
  /\ bridge.exc = "notrun"
  /\ bridge' = _get_dist_root(fs)
  /\ UNCHANGED <<script, dataFiles, calls, hook, exitstatus, testsFailed>>
  /\ UNCHANGED <<convVars, locVars>>

\* the caller calls generate_report on its bridge, one call at a time
ApiCall(c) ==
  /\ ~Busy
  /\ ~HookRunning
  /\ bridge.exc = ""
  /\ \E path \in DataPaths : Begin(c, "api", path, bridge.val)
  /\ UNCHANGED <<script, dataFiles, bridge, hook, exitstatus, testsFailed>>
  /\ UNCHANGED <<convVars, locVars>>

(***************************************************************************)
(* plugin.py: SmartReporterPlugin.pytest_sessionfinish.                    *)
(***************************************************************************)
\* the classes of the exceptions the pipeline raises, all of them Exceptions
ExceptionClasses ==
  {"RuntimeError", "OSError", "FileNotFoundError", "PermissionError", "ValueError",
   "JSONDecodeError", "TypeError", "AttributeError", "OverflowError"}

\* a handler for the renderer's errors only
HookCatchesRuntimeError(e) == e = "RuntimeError"

\* line 75: except Exception
HookCatches(e) == e \in ExceptionClasses

\* the exit status of the session's own tests
TestsExit(failed) == IF failed THEN "TESTS_FAILED" ELSE "OK"

\* the exit status pytest gives a session whose hook raised
InternalError == "INTERNAL_ERROR"

IdleHook == [pc |-> "idle", bridge |-> NotRun, call |-> 0, printed |-> "", ended |-> ""]

\* what the hook does with an exception of its try block
HookHandle(h, e) ==
  IF HookCatches(e)
  THEN [h EXCEPT !.pc = "done", !.printed = "failed", !.ended = "returned"]
  ELSE [h EXCEPT !.pc = "done", !.ended = "raised"]

\* lines 64-68
HookStart ==
  /\ ~Busy
  /\ hook.pc = "idle"
  /\ hook' = IF report = NoFile
             THEN [hook EXCEPT !.pc = "done", !.printed = "skipped", !.ended = "returned"]
             ELSE [hook EXCEPT !.pc = "construct"]
  /\ UNCHANGED <<script, dataFiles, bridge, calls, exitstatus, testsFailed>>
  /\ UNCHANGED <<convVars, locVars>>

\* line 71
HookConstruct ==
  /\ ~Busy
  /\ hook.pc = "construct"
  /\ LET r == _get_dist_root(fs)
     IN  /\ hook' = IF r.exc # "" THEN HookHandle([hook EXCEPT !.bridge = r], r.exc)
                    ELSE [hook EXCEPT !.pc = "generate", !.bridge = r]
         /\ exitstatus' = IF r.exc # "" /\ ~HookCatches(r.exc) THEN InternalError ELSE exitstatus
  /\ UNCHANGED <<script, dataFiles, bridge, calls, testsFailed>>
  /\ UNCHANGED <<convVars, locVars>>

\* lines 72-75: the hook calls generate_report
HookGenerate(c) ==
  /\ ~Busy
  /\ hook.pc = "generate"
  /\ Begin(c, "hook", "default", hook.bridge.val)
  /\ hook' = [hook EXCEPT !.pc = "wait", !.call = c]
  /\ UNCHANGED <<script, dataFiles, bridge, exitstatus, testsFailed>>
  /\ UNCHANGED <<convVars, locVars>>

\* lines 76-78: the call has ended
HookFinish ==
  /\ hook.pc = "wait"
  /\ calls[hook.call].pc = "done"
  /\ LET e == calls[hook.call].outcome.exc
     IN  /\ hook' = IF e = ""
                    THEN [hook EXCEPT !.pc = "done", !.printed = "generated", !.ended = "returned"]
                    ELSE HookHandle(hook, e)
         /\ exitstatus' = IF e # "" /\ ~HookCatches(e) THEN InternalError ELSE exitstatus
  /\ UNCHANGED <<script, dataFiles, bridge, calls, testsFailed>>
  /\ UNCHANGED <<convVars, locVars>>

(***************************************************************************)
(* The raw documents the converter is run on.                              *)
(***************************************************************************)
\* every sequence over S of length at most n
SeqsUpTo(S, n) == UNION {[1..k -> S] : k \in 0..n}

\* a key that the drawn dict does not carry
Absent == [t |-> "absent", v |-> 0]
MkDict(pairs) == JDict(SelectSeq(pairs, LAMBDA kv : kv.value # Absent))

TestRecord(nodeid, outcome, duration, call, setup, teardown) ==
  MkDict(<<KV("nodeid", nodeid), KV("outcome", outcome), KV("duration", duration),
           KV("call", call), KV("setup", setup), KV("teardown", teardown)>>)

Document(created, tests) == MkDict(<<KV("created", created), KV("tests", tests)>>)

BaseNodeid == JStr(<<"f", ":", ":", "t">>)
BaseCreated == JFloat(17005)

\* raw outcome tokens: the three known ones, others, and no token at all
OutcomeTokens ==
  {W("passed"), W("failed"), W("skipped"), W("error"), W("xfailed"), JStr(<<>>),
   JNull, Absent, JInt(1), JBool(TRUE), JList(<<W("passed")>>)}

\* raw durations
DurationAlphabet == {"1", "5", ".", "-", "x"}
DurationStrings ==
  SeqsUpTo(DurationAlphabet, MaxStrLen) \cup {<<"i", "n", "f">>, <<"n", "a", "n">>}
DurationNumbers ==
  {JInt(n) : n \in {-2, 0, 3}}
    \cup {JFloat(u) : u \in {-12345, -5, 0, 5, 15000, 12349}}
DurationValues ==
  {JStr(s) : s \in DurationStrings} \cup DurationNumbers
    \cup {JNull, Absent, JInf(1), JInf(-1), JNaN, JBool(TRUE), JList(<<>>), JDict(<<>>)}

\* the shapes of a phase's longrepr; p names the phase, so that the text
\* of one phase's error is never that of another's
LongreprShapes(p) ==
  {JNull, Absent, JStr(<<>>), JStr(<<"E", p>>),
   JDict(<<KV("message", JStr(<<"M", p>>))>>),
   JDict(<<KV("message", JStr(<<>>))>>),
   JDict(<<KV("message", JNull), KV("phase", W(p))>>),
   JDict(<<KV("message", JInt(5))>>),
   JDict(<<KV("message", JList(<<W(p)>>))>>),
   JDict(<<KV("chain", JList(<<>>)), KV("phase", W(p))>>),
   JDict(<<>>), JList(<<W(p)>>), JList(<<>>), JInt(7), JInt(0), JBool(TRUE)}

PhaseValues(p) ==
  {Absent, JNull, W("oops")} \cup {MkDict(<<KV("longrepr", l)>>) : l \in LongreprShapes(p)}

NodeidAlphabet == {"a", "b", ":"}
NodeidValues ==
  {JStr(s) : s \in SeqsUpTo(NodeidAlphabet, MaxIdLen)}
    \cup {Absent, JNull, JInt(1), JList(<<>>), JList(<<JStr(<<":", ":">>)>>), JDict(<<>>)}

\* one-record documents, each varying one part of the record
OutcomeDocs ==
  {Document(BaseCreated, JList(<<TestRecord(BaseNodeid, o, JFloat(15000), Absent, Absent, Absent)>>))
     : o \in OutcomeTokens}
DurationDocs ==
  {Document(BaseCreated, JList(<<TestRecord(BaseNodeid, W("passed"), d, Absent, Absent, Absent)>>))
     : d \in DurationValues}
ErrorDocs ==
  {Document(BaseCreated, JList(<<TestRecord(BaseNodeid, W("failed"), JFloat(15000), c, s, t)>>))
     : c \in PhaseValues("call"), s \in PhaseValues("setup"), t \in PhaseValues("teardown")}
NodeidDocs ==
  {Document(BaseCreated, JList(<<TestRecord(n, W("passed"), JFloat(15000), Absent, Absent, Absent)>>))
     : n \in NodeidValues}

\* documents of several records
ListRecords ==
  {TestRecord(JStr(<<"a">>), W("passed"), JInt(1), Absent, Absent, Absent),
   TestRecord(JStr(<<"f", ":", ":", "a">>), W("failed"), JFloat(5), W("oops"), Absent, Absent),
   TestRecord(JStr(<<"f", ":", ":", "b">>), W("failed"), JFloat(5),
              MkDict(<<KV("longrepr", W("boom"))>>), Absent, Absent),
   TestRecord(JStr(<<"f", ":", ":", "c">>), W("error"), JNull, Absent, Absent, Absent),
   TestRecord(Absent, W("skipped"), Absent, Absent, Absent, Absent),
   JInt(3)}
CreatedValues ==
  {Absent, JNull, JInt(0), JFloat(0), JInt(3), JFloat(17005), JFloat(-15005),
   JStr(<<"1", ".", "5">>), W("bad"), JInf(1), JList(<<>>)}
ListDocs ==
  {Document(c, JList(ts)) : c \in CreatedValues, ts \in SeqsUpTo(ListRecords, MaxTests)}

\* documents that are not the shape the converter expects
OddDocs ==
  {NoFile, NotJson, JList(<<>>), JNull, JDict(<<>>)}
    \cup {Document(BaseCreated, ts) :
            ts \in {JNull, JInt(2), W("ab"), JDict(<<KV("nodeid", W("a"))>>), JDict(<<>>)}}

ConvReports == OutcomeDocs \cup DurationDocs \cup ErrorDocs \cup NodeidDocs \cup ListDocs \cup OddDocs

ClockValues == {12345, 99999}

(***************************************************************************)
(* The converter run on one document.                                      *)
(***************************************************************************)
\* no bridge, no call, no hook, no transient file
NothingRuns ==
  /\ script = NoFile
  /\ dataFiles = [p \in DataPaths |-> NoFile]
  /\ bridge = NotRun
  /\ calls = [c \in Calls |-> IdleCall]
  /\ hook = IdleHook
  /\ testsFailed = FALSE
  /\ exitstatus = TestsExit(FALSE)

\* a filesystem without any renderer
BareFileSystem == FileSystem(FALSE, <<>>, OffChain, 1)

InitConv ==
  /\ report \in ConvReports
  /\ clock \in ClockValues
  /\ converted = NotRun
  /\ fs = BareFileSystem
  /\ located = NotRun
  /\ NothingRuns

Convert ==
  /\ converted.exc = "notrun"
  /\ converted' = convert_pytest_json(report, clock)
  /\ UNCHANGED <<report, clock>>
  /\ UNCHANGED <<locVars, runVars>>

NextConv == Convert

SpecConv == InitConv /\ [][NextConv]_vars

(***************************************************************************)
(* Properties of the converter.                                            *)
(***************************************************************************)
Ran == converted.exc # "notrun"
Returned == converted.exc = ""

\* the raw test records of the document
RawTests ==
  IF report.t = "dict" /\ GetOr(report, "tests", JList(<<>>)).t = "list"
  THEN GetOr(report, "tests", JList(<<>>)).v
  ELSE <<>>

Results == converted.val.results

\* the two mapping tables of the specification
StatusTable(token) ==
  CASE token = W("passed") -> "passed"
    [] token = W("failed") -> "failed"
    [] token = W("skipped") -> "skipped"
    [] OTHER -> "failed"
OutcomeTable(token) ==
  CASE token = W("passed") -> "expected"
    [] token = W("skipped") -> "skipped"
    [] OTHER -> "unexpected"

\* C4: for every raw outcome token, known, unknown or absent, status and
\* outcome follow the two tables, the conversion of the record does not
\* raise, status is passed exactly when outcome is expected and status is
\* skipped exactly when outcome is skipped.
OutcomeMappingTables ==
  /\ (Ran /\ report \in OutcomeDocs) => Returned
  /\ Returned =>
       \A i \in 1..Len(Results) :
         LET token == Get(RawTests[i], "outcome")
             r == Results[i]
         IN  /\ r.status = StatusTable(token)
             /\ r.outcome = OutcomeTable(token)
             /\ r.status = "passed" <=> r.outcome = "expected"
             /\ r.status = "skipped" <=> r.outcome = "skipped"

\* an unknown token was converted: failed and unexpected
OutcomeUnknownConverted ==
  /\ Returned
  /\ report \in OutcomeDocs
  /\ Get(RawTests[1], "outcome") = W("error")
  /\ Results[1].status = "failed"
  /\ Results[1].outcome = "unexpected"

\* C7: a returned document has one result per raw test record, the i-th
\* result made from the i-th record and carrying its nodeid as testId.
ResultsOneToOne ==
  Returned =>
    /\ Len(Results) = Len(RawTests)
    /\ \A i \in 1..Len(Results) :
         /\ HasKey(RawTests[i], "nodeid") => Results[i].testId = Get(RawTests[i], "nodeid")
         /\ Results[i] = ConvertTest(RawTests[i]).val

\* two different records were converted, each at its place
TwoRecordsConverted ==
  /\ Returned
  /\ Len(Results) >= 2
  /\ Results[1].testId = JStr(<<"f", ":", ":", "b">>)
  /\ Results[2].testId = JStr(<<"a">>)

\* C8: for any raw duration the conversion does not raise and the canonical
\* duration is a non-negative integer, 0 for an absent or non-numeric one.
DurationNonNegativeNeverRaises ==
  (Ran /\ report \in DurationDocs) =>
    /\ Returned
    /\ Results[1].duration \in Nat
    /\ LET d == Get(RawTests[1], "duration")
       IN  (d.t \in {"null", "list", "dict"} \/ d = W("x")) => Results[1].duration = 0

\* whether phase p of a raw record carries a non-empty error representation
Longrepr(test, p) ==
  IF Get(test, p).t = "dict" THEN Get(Get(test, p), "longrepr") ELSE JNull
HasError(test, p) == Truthy(Longrepr(test, p))

\* C9: the canonical error is that of the first phase, in the order call,
\* setup, teardown, that carries a non-empty error representation; errors
\* of later phases are not merged in.
ErrorPhasePriority ==
  Returned =>
    \A i \in 1..Len(Results) :
      LET test == RawTests[i]
          e == Results[i].error
      IN  /\ HasError(test, "call") => e = ErrorText(Longrepr(test, "call"))
          /\ (~HasError(test, "call") /\ HasError(test, "setup")) =>
               e = ErrorText(Longrepr(test, "setup"))
          /\ (~HasError(test, "call") /\ ~HasError(test, "setup") /\ HasError(test, "teardown")) =>
               e = ErrorText(Longrepr(test, "teardown"))

\* a record with a string error in call and another in setup gave the call error
CallErrorWonOverSetup ==
  /\ Returned
  /\ report \in ErrorDocs
  /\ Longrepr(RawTests[1], "call") = JStr(<<"E", "call">>)
  /\ Longrepr(RawTests[1], "setup") = JStr(<<"E", "setup">>)
  /\ Results[1].error = JStr(<<"E", "call">>)

\* C10: whatever the shape of the phases' error representations, the
\* canonical error is none or a non-empty string, and none exactly when no
\* phase carries a non-empty error.
ErrorNoneOrNonEmptyString ==
  Returned =>
    \A i \in 1..Len(Results) :
      LET test == RawTests[i]
          e == Results[i].error
      IN  /\ e.t = "null" \/ (e.t = "str" /\ Len(e.v) > 0)
          /\ e.t = "null" <=> \A p \in {"call", "setup", "teardown"} : ~HasError(test, p)

\* the nodeid the converter reads from a raw record
RawNodeid(test) == GetOr(test, "nodeid", DefaultNodeid)

\* C11: a str nodeid never makes the conversion raise; when the nodeid
\* contains "::", file is what precedes the first "::" and title is all
\* that follows it, so that file + "::" + title is the nodeid; when it does
\* not, file is "unknown" and title is the whole nodeid; testId is the
\* nodeid as it was read.
NodeidSplitRoundTrip ==
  /\ (Ran /\ report \in NodeidDocs /\ RawNodeid(RawTests[1]).t = "str") => Returned
  /\ Returned =>
       \A i \in 1..Len(Results) :
         LET nodeid == RawNodeid(RawTests[i])
             r == Results[i]
             at == IF nodeid.t = "str" THEN FirstDelim(nodeid.v) ELSE 0
         IN  /\ r.testId = nodeid
             /\ at # 0 =>
                  /\ r.file = JStr(SubSeq(nodeid.v, 1, at - 1))
                  /\ r.title = JStr(SubSeq(nodeid.v, at + 2, Len(nodeid.v)))
                  /\ r.file.v \o <<":", ":">> \o r.title.v = nodeid.v
             /\ at = 0 => (r.file = W("unknown") /\ r.title = nodeid)

\* a nodeid of two delimiters was split at the first and the rest rejoined
NodeidRejoined ==
  /\ Returned
  /\ report \in NodeidDocs
  /\ RawNodeid(RawTests[1]) = JStr(<<":", ":", ":", ":">>)
  /\ Results[1].file = JStr(<<>>)
  /\ Results[1].title = JStr(<<":", ":">>)
  /\ Results[1].testId = JStr(<<":", ":", ":", ":">>)

\* C12: whenever the raw document carries a numeric created timestamp, 0
\* and fractional seconds included, startTime is created * 1000 truncated
\* to an integer; the wall clock gives startTime only when created is absent.
StartTimeFromCreated ==
  Returned =>
    LET created == Get(report, "created")
        startTime == converted.val.startTime
    IN  /\ (HasKey(report, "created") /\ created.t = "int") =>
             startTime = created.v * MsPerSecond
        /\ (HasKey(report, "created") /\ created.t = "float") =>
             startTime = Trunc(created.v, Scale \div MsPerSecond)
        /\ ~HasKey(report, "created") =>
             startTime = Trunc(clock, Scale \div MsPerSecond)

(***************************************************************************)
(* The locator run on one filesystem.                                      *)
(***************************************************************************)
InitLocate ==
  /\ fs \in FileSystems
  /\ located = NotRun
  /\ report = NoFile
  /\ clock = 0
  /\ converted = NotRun
  /\ NothingRuns

Locate ==
  /\ located.exc = "notrun"
  /\ located' = _get_dist_root(fs)
  /\ UNCHANGED fs
  /\ UNCHANGED <<convVars, runVars>>

NextLocate == Locate

SpecLocate == InitLocate /\ [][NextLocate]_vars

(***************************************************************************)
(* Properties of the locator.                                              *)
(***************************************************************************)
Located == located.exc # "notrun"

\* the directories looked at for a package.json: the anchor, then the
\* working directory and its ancestors within the walk's ceiling
WalkDirs == {IF fs.cwd + k >= ChainDepth THEN ChainDepth ELSE fs.cwd + k : k \in 0..(WalkCeiling - 1)}
Candidates == {fs.anchor} \cup WalkDirs
Matching == {d \in Candidates : fs.pkg[d] = "playwright-smart-reporter"}
Usable == {d \in Matching : fs.dist[d]}

\* the first matching directory in the order of the search
FirstMatching ==
  IF fs.anchor \in Matching THEN fs.anchor
  ELSE CHOOSE d \in Matching : \A e \in Matching : d <= e

\* C5: the bundled directory wins whenever it holds the asset, even beside
\* a usable monorepo dist; with no bundled asset and every matching project
\* root holding the asset, the first matching root's dist is returned; with
\* neither a bundled asset nor a matching root holding one, it raises.
LocatorPriority ==
  Located =>
    /\ fs.bundled => (located.exc = "" /\ located.val = BundledDist)
    /\ (~fs.bundled /\ Matching # {} /\ Usable = Matching) =>
         (located.exc = "" /\ located.val = DistOf(FirstMatching))
    /\ (~fs.bundled /\ Usable = {}) => located.exc = "RuntimeError"

\* the bundled directory was returned although a usable monorepo dist exists
BundledWonOverMonorepo ==
  /\ Located
  /\ fs.bundled
  /\ Usable # {}
  /\ located.exc = ""
  /\ located.val = BundledDist

\* C6: the error is raised only when no candidate resolves: whenever the
\* anchor, the working directory or one of its ancestors within the ceiling
\* is a matching root holding the asset, a dist directory is returned.
LocatorFindsAnyUsableRoot ==
  (Located /\ Usable # {}) => located.exc = ""

(***************************************************************************)
(* A test session and a caller of the bridge, one call at a time.          *)
(***************************************************************************)
SessionFileSystems ==
  {FileSystem(TRUE, <<>>, OffChain, 1),
   FileSystem(FALSE, (2 :> <<"playwright-smart-reporter", TRUE>>), 2, 1),
   FileSystem(FALSE, (2 :> <<"playwright-smart-reporter", FALSE>>), 2, 1),
   BareFileSystem}

PassedRecord == TestRecord(BaseNodeid, W("passed"), JFloat(15000), Absent, Absent, Absent)
SessionReports ==
  {NoFile, NotJson,
   Document(BaseCreated, JList(<<PassedRecord>>)),
   Document(BaseCreated, JList(<<PassedRecord, JInt(3)>>))}

SessionClock == 3 * Scale

Init ==
  /\ report \in SessionReports
  /\ clock = SessionClock
  /\ converted = NotRun
  /\ fs \in SessionFileSystems
  /\ located = NotRun
  /\ script = NoFile
  /\ dataFiles = [p \in DataPaths |-> NoFile]
  /\ bridge = NotRun
  /\ calls = [c \in Calls |-> IdleCall]
  /\ hook = IdleHook
  /\ testsFailed \in BOOLEAN
  /\ exitstatus = TestsExit(testsFailed)

Next ==
  \/ Construct
  \/ \E c \in Calls : ApiCall(c)
  \/ \E c \in Calls : ConvertStep(c)
  \/ \E c \in Calls : SaveData(c)
  \/ \E c \in Calls : WriteScript(c)
  \/ \E c \in Calls : Launch(c)
  \/ \E c \in Calls : Exit(c)
  \/ \E c \in Calls : Cleanup(c)
  \/ HookStart
  \/ HookConstruct
  \/ \E c \in Calls : HookGenerate(c)
  \/ HookFinish

Spec == Init /\ [][Next]_vars

(***************************************************************************)
(* Properties of generate_report and of the session-finish hook.           *)
(***************************************************************************)
Ended(c) == calls[c].pc = "done"

\* the renderer of call c has exited
Exited(c) == calls[c].result.returncode \in ExitCodes

\* C1: once a call of generate_report has ended, by returning or by
\* raising, the invocation script .generate-report.js is not on disk.
ScriptGoneAfterCall ==
  \A c \in Calls : Ended(c) => script = NoFile

\* C2: generate_report raises the rendering error exactly when the renderer
\* exited non-zero, its text carrying stderr, or stdout when stderr is
\* empty; when the renderer exited 0 the call returns without raising.
RenderErrorIffNonZeroExit ==
  \A c \in Calls :
    Ended(c) =>
      LET r == calls[c].result
          o == calls[c].outcome
      IN  /\ o.exc = "RuntimeError" <=> (Exited(c) /\ r.returncode # 0)
          /\ (Exited(c) /\ r.returncode # 0) =>
               o.msg = <<"Report generation failed:", "\n">>
                         \o (IF r.stderr # <<>> THEN r.stderr ELSE r.stdout)
          /\ (Exited(c) /\ r.returncode = 0) => o.exc = ""

\* C3: the hook never lets a failure of the pipeline reach the session:
\* without the report file it returns with neither a bridge nor a call;
\* whatever the locator, the conversion or the rendering raised, it prints
\* the failure and returns, and the session's exit status stays that of
\* its tests.
HookNeverPropagates ==
  /\ exitstatus = TestsExit(testsFailed)
  /\ hook.pc = "done" => hook.ended = "returned"
  /\ (hook.pc = "done" /\ report = NoFile) =>
       /\ hook.printed = "skipped"
       /\ hook.bridge.exc = "notrun"
       /\ hook.call = 0
       /\ \A c \in Calls : calls[c].caller # "hook"
  /\ (hook.pc = "done" /\ hook.bridge.exc \notin {"", "notrun"}) =>
       (hook.printed = "failed" /\ hook.call = 0)
  /\ (hook.pc = "done" /\ hook.call # 0 /\ Ended(hook.call)) =>
       hook.printed = (IF calls[hook.call].outcome.exc = "" THEN "generated" ELSE "failed")

\* the hook's call raised the rendering error and the hook returned
HookCaughtRenderError ==
  /\ hook.pc = "done"
  /\ hook.call # 0
  /\ Ended(hook.call)
  /\ calls[hook.call].outcome.exc = "RuntimeError"
  /\ hook.printed = "failed"
  /\ hook.ended = "returned"
  /\ testsFailed = FALSE
  /\ exitstatus = "OK"

\* C13: once a call whose renderer exited, with 0 or not, has ended, the
\* file at its transient document path exists and holds the document the
\* call converted: the call removes no file but the invocation script.
DataFileKept ==
  \A c \in Calls :
    (Ended(c) /\ Exited(c)) =>
      /\ dataFiles[calls[c].path] # NoFile
      /\ dataFiles[calls[c].path] = JsonOf(calls[c].html_data.val)

\* a call given its own document path ended after the renderer failed: the
\* script is gone and the document is still at that path
DataFileKeptAfterFailure ==
  \E c \in Calls :
    /\ Ended(c)
    /\ Exited(c)
    /\ calls[c].result.returncode # 0
    /\ calls[c].path = "custom"
    /\ script = NoFile
    /\ dataFiles["custom"] = JsonOf(convert_pytest_json(report, clock).val)

\* the renderer of call c exited and the call ended with its script still
\* on disk: the unlink of the finally block failed
CleanupFailed(c) == Ended(c) /\ Exited(c) /\ script # NoFile

\* C14: a failure to delete the invocation script does not change what the
\* caller gets: after exit 0 the call returns normally, after a non-zero
\* exit it raises the rendering error with the renderer's diagnostics.
CleanupFailureNotEscalated ==
  \A c \in Calls :
    CleanupFailed(c) =>
      /\ calls[c].result.returncode = 0 => calls[c].outcome = NoExc
      /\ calls[c].result.returncode # 0 =>
           calls[c].outcome =
             Exc("RuntimeError", RenderErrorText(calls[c].result.stderr, calls[c].result.stdout))

\* the document of call c is whole at its path
DocumentWritten(c) ==
  /\ calls[c].html_data.exc = ""
  /\ dataFiles[calls[c].path] = JsonOf(calls[c].html_data.val)

\* what a call has launched: nothing, or one renderer that was given the
\* script, the document path and the HTML destination, the script and the
\* whole document being on disk
LaunchedInOrder ==
  \A c \in Calls :
    /\ Len(calls[c].launches) <= 1
    /\ Exited(c) => Len(calls[c].launches) = 1
    /\ \A i \in 1..Len(calls[c].launches) :
         LET l == calls[c].launches[i]
         IN  /\ calls[c].html_data.exc = ""
             /\ l.data = JsonOf(calls[c].html_data.val)
             /\ l.script = ScriptFor(calls[c].root)
             /\ l.argv = <<".generate-report.js", calls[c].path, "output_html">>
    /\ (Ended(c) /\ ~DocumentWritten(c)) => calls[c].launches = <<>>

\* what a step may do: the document is written by a call that has
\* converted, the script by a call whose document is written, the renderer
\* launched by a call whose script is written; a call that is converting or
\* writing its document leaves the script as it is, and when it ends there
\* it has launched nothing
StepInOrder ==
  /\ dataFiles' # dataFiles =>
       \E c \in Calls : calls[c].pc = "save" /\ calls[c].html_data.exc = ""
  /\ (script' # script /\ script' # NoFile) =>
       \E c \in Calls : calls[c].pc = "script" /\ DocumentWritten(c)
  /\ \A c \in Calls :
       /\ calls'[c].launches # calls[c].launches =>
            \/ calls'[c].launches = <<>>
            \/ /\ calls[c].launches = <<>>
               /\ DocumentWritten(c)
               /\ script = ScriptFor(calls[c].root)
       /\ calls[c].pc \in {"convert", "save"} =>
            /\ script' = script
            /\ calls'[c].pc = "done" => calls'[c].launches = <<>>

\* C16: within a call the conversion completes, then the document is
\* written, then the script, then the renderer is launched, once, with the
\* script path, the document path and the HTML destination; when the
\* conversion or the document write fails, the call creates no script and
\* launches nothing, so the renderer is never given a partial document.
StepsInFixedOrder == []LaunchedInOrder /\ [][StepInOrder]_vars

\* a call launched its one renderer on the written script and document and
\* has ended
LaunchedOnceAfterWrites ==
  \E c \in Calls :
    /\ Ended(c)
    /\ Exited(c)
    /\ Len(calls[c].launches) = 1
    /\ calls[c].launches[1].data = JsonOf(convert_pytest_json(report, clock).val)
    /\ calls[c].launches[1].script = ScriptFor(calls[c].root)
    /\ calls[c].launches[1].argv = <<".generate-report.js", "custom", "output_html">>

(***************************************************************************)
(* Calls of generate_report running at the same time on one bridge, each   *)
(* given a transient document path of its own.  The statements of the      *)
(* calls interleave; the finally block is two statements, the exists() of  *)
(* line 164 and the unlink() of line 165.                                  *)
(***************************************************************************)
\* line 164: if script_path.exists()
CleanupExists(c) ==
  /\ calls[c].pc = "finally"
  /\ calls' = [calls EXCEPT ![c] =
                 IF script # NoFile THEN [@ EXCEPT !.pc = "unlink"]
                 ELSE [@ EXCEPT !.pc = "done", !.outcome = calls[c].raised]]
  /\ UNCHANGED <<script, dataFiles, bridge, hook, exitstatus, testsFailed>>
  /\ UNCHANGED <<convVars, locVars>>

\* line 165: script_path.unlink(); a file that is gone by now raises
\* FileNotFoundError, and any exception of unlink replaces the one in flight
CleanupUnlink(c) ==
  /\ calls[c].pc = "unlink"
  /\ IF script = NoFile
     THEN /\ script' = script
          /\ calls' = [calls EXCEPT ![c] =
                         [@ EXCEPT !.pc = "done", !.outcome = Exc("FileNotFoundError", <<>>)]]
     ELSE \E unlinked \in BOOLEAN :
            /\ script' = IF unlinked THEN NoFile ELSE script
            /\ calls' = [calls EXCEPT ![c] =
                           [@ EXCEPT !.pc = "done",
                                     !.outcome = IF unlinked THEN calls[c].raised
                                                 ELSE Exc("PermissionError", <<>>)]]
  /\ UNCHANGED <<dataFiles, bridge, hook, exitstatus, testsFailed>>
  /\ UNCHANGED <<convVars, locVars>>

\* a thread calls generate_report on the shared bridge with a document path
\* no other call was given
ConcurrentCall(c) ==
  /\ bridge.exc = ""
  /\ calls[c].pc = "idle"
  /\ \A d \in Calls : d < c => calls[d].pc # "idle"
  /\ \E path \in DataPaths :
       /\ \A d \in Calls : calls[d].pc # "idle" => calls[d].path # path
       /\ calls' = [calls EXCEPT ![c] =
                      [@ EXCEPT !.pc = "convert", !.caller = "api",
                                !.path = path, !.root = bridge.val]]
  /\ UNCHANGED <<script, dataFiles, bridge, hook, exitstatus, testsFailed>>
  /\ UNCHANGED <<convVars, locVars>>

ConcurrentReports ==
  {NotJson, Document(BaseCreated, JList(<<PassedRecord>>))}

InitConcurrent ==
  /\ report \in ConcurrentReports
  /\ clock = SessionClock
  /\ converted = NotRun
  /\ fs = FileSystem(TRUE, <<>>, OffChain, 1)
  /\ located = NotRun
  /\ script = NoFile
  /\ dataFiles = [p \in DataPaths |-> NoFile]
  /\ bridge = _get_dist_root(fs)
  /\ calls = [c \in Calls |-> IdleCall]
  /\ hook = IdleHook
  /\ testsFailed = FALSE
  /\ exitstatus = TestsExit(testsFailed)

NextConcurrent ==
  \/ \E c \in Calls : ConcurrentCall(c)
  \/ \E c \in Calls : ConvertStep(c)
  \/ \E c \in Calls : SaveData(c)
  \/ \E c \in Calls : WriteScript(c)
  \/ \E c \in Calls : Launch(c)
  \/ \E c \in Calls : Exit(c)
  \/ \E c \in Calls : CleanupExists(c)
  \/ \E c \in Calls : CleanupUnlink(c)

SpecConcurrent == InitConcurrent /\ [][NextConcurrent]_vars

\* a write or an unlink of call c's own failed
OwnFileFailure(c) == calls[c].outcome.exc \in {"OSError", "PermissionError"}

\* C15: calls running at the same time with distinct document paths do not
\* interfere: every renderer is launched while the script is on disk with
\* the content its call wrote; a call whose renderer exited and whose own
\* unlink did not fail ends as it would alone, returning after exit 0 and
\* raising the rendering error after a non-zero exit; and once every call
\* has ended, none by a failure of its own write or unlink, no script is
\* left on disk.
ConcurrentCallsDoNotInterfere ==
  /\ \A c \in Calls :
       \A i \in 1..Len(calls[c].launches) :
         calls[c].launches[i].script = ScriptFor(calls[c].root)
  /\ \A c \in Calls :
       (Ended(c) /\ Exited(c) /\ ~OwnFileFailure(c)) => calls[c].outcome = calls[c].raised
  /\ ((\A c \in Calls : calls[c].pc \in {"idle", "done"} /\ ~OwnFileFailure(c))
        /\ (\E c \in Calls : Ended(c)))
       => script = NoFile
====
